---------------------------- MODULE Spec2Model ----------------------------
(***************************************************************************)
(* A model of carica-dynamodb-tools:                                       *)
(*   item_size.py      - the DynamoDB item size calculator                 *)
(*   stats.py          - generate_stats / cli, the per-item statistics     *)
(*   dump_s3_export.py - the multi-process S3 export dumper                *)
(*                                                                         *)
(* A number string is modelled as a sequence of characters, each one of    *)
(* "0".."9", ".", "-" or the filler "Z".  The text of an attribute name or *)
(* of a string payload is a sequence of runs <<code point, count>>, count  *)
(* >= 1: the code point repeated count times.                              *)
(***************************************************************************)
EXTENDS Integers, Sequences, FiniteSets, TLC

VARIABLES
    numIn,      \* the number strings handed to number_size, in order
    numStr,     \* format_decimal's result for each string measured so far
    numSize,    \* number_size's result for each string measured so far
    item,       \* the item handed to item_size: a sequence of <<name, attr>>
    itemPc,     \* "start" before item_size ran, "done" after
    attrSizes,  \* attr_size's result for each attribute of the item, in order
    itemSize,   \* item_size's result
    attrs,      \* stats cli: the attribute names given with --attr
    fmt,        \* stats cli: the --format option, "json" or "csv"
    stdin,      \* the items of the lines not yet read from standard input
    lines,      \* generate_stats: the list readlines() returned
    pos,        \* generate_stats: the index in lines of the next line
    genPc,      \* generate_stats: "start", "loop", "done" or "raised"
    yielded,    \* the StatisticsRecords generate_stats has yielded, in order
    rows,       \* stats cli: the rows collected for the CSV table
    statsOut,   \* stats cli: what was written to standard output, in order
    procs,      \* dump cli: the --procs option
    manifest,   \* the data files of the export: the number of items of each
    cliPc,      \* dump cli: "validate", "put", "join", "done" or "rejected"
    putPos,     \* dump cli: the index of the next manifest line to put
    sentPut,    \* dump cli: the number of None sentinels put
    q,          \* manifest_item_q: file indexes, and 0 for None, in order
    lock,       \* print_lock: the worker holding it, or 0
    wpc,        \* each worker's position in batch_worker
    cur,        \* each worker's manifest_item (a file index)
    rec,        \* each worker's position in the lines of its data file
    buf,        \* each worker process's own sys.stdout buffer
    stream,     \* what the processes have written to the shared output
    taken,      \* history: how many times each manifest item was dequeued
    dumped,     \* history: how many times each file's lines were finished
    sentinels   \* history: the number of None each worker received

numVars == <<numIn, numStr, numSize>>

itemVars == <<item, itemPc, attrSizes, itemSize>>

statsVars == <<attrs, fmt, stdin, lines, pos, genPc, yielded, rows, statsOut>>

dumpVars == <<procs, manifest, cliPc, putPos, sentPut, q, lock, wpc, cur, rec,
              buf, stream, taken, dumped, sentinels>>

vars == <<numIn, numStr, numSize, item, itemPc, attrSizes, itemSize,
          attrs, fmt, stdin, lines, pos, genPc, yielded, rows, statsOut,
          procs, manifest, cliPc, putPos, sentPut, q, lock, wpc, cur, rec,
          buf, stream, taken, dumped, sentinels>>

\* The parts of the program a run does not use stay as constructed
NumIdle == numIn = <<>> /\ numStr = <<>> /\ numSize = <<>>

ItemIdle == item = <<>> /\ itemPc = "idle" /\ attrSizes = <<>> /\ itemSize = 0

StatsIdle ==
    /\ attrs = <<>> /\ fmt = "json" /\ stdin = <<>> /\ lines = <<>> /\ pos = 1
    /\ genPc = "idle" /\ yielded = <<>> /\ rows = <<>> /\ statsOut = <<>>

DumpIdle ==
    /\ procs = 0 /\ manifest = <<>> /\ cliPc = "idle" /\ putPos = 1 /\ sentPut = 0
    /\ q = <<>> /\ lock = 0 /\ wpc = <<>> /\ cur = <<>> /\ rec = <<>> /\ buf = <<>>
    /\ stream = <<>> /\ taken = <<>> /\ dumped = <<>> /\ sentinels = <<>>

----------------------------------------------------------------------------
(* General helpers *)

Range(s) == {s[i] : i \in 1..Len(s)}

Max(a, b) == IF a >= b THEN a ELSE b

\* math.ceil(a / b) for a >= 0, b > 0
CeilDiv(a, b) == (a + b - 1) \div b

\* ('0',) * k
Zeros(k) == [i \in 1..k |-> "0"]

\* str.lstrip('0') / the loop "while digits_list and digits_list[0] == '0': pop(0)"
RECURSIVE LStrip0(_)
LStrip0(s) ==
    IF s # <<>> /\ Head(s) = "0" THEN LStrip0(Tail(s)) ELSE s

\* str.rstrip('0') / the loop "while digits_list and digits_list[-1] == '0': pop(-1)"
RECURSIVE RStrip0(_)
RStrip0(s) ==
    IF s # <<>> /\ s[Len(s)] = "0" THEN RStrip0(SubSeq(s, 1, Len(s) - 1)) ELSE s

\* str.strip('0')
Strip0(s) == RStrip0(LStrip0(s))

\* s.replace(c, '')
RECURSIVE RemoveChar(_, _)
RemoveChar(s, c) ==
    IF s = <<>> THEN <<>>
    ELSE IF Head(s) = c THEN RemoveChar(Tail(s), c)
    ELSE <<Head(s)>> \o RemoveChar(Tail(s), c)

\* str(d) for one decimal digit d
DigitChar(d) == <<"0", "1", "2", "3", "4", "5", "6", "7", "8", "9">>[d + 1]

----------------------------------------------------------------------------
(* item_size.py: numbers                                                   *)
(*                                                                         *)
(* A number string is the record [neg, int, frac, exp]: an optional "-",   *)
(* the digits before the point, the digits after it, and the exponent      *)
(* written after "E" (0 when the string has none).                         *)

DYNAMODB_NUMBER_DIGITS == 38
EMPTY_DOC_BASE_SIZE == 3
NESTED_TYPE_BASE_SIZE == 1
NUMBER_SIZE_CAP == 21

\* The leading zeros of a digit sequence dropped (digits are integers here)
RECURSIVE DropLeadingZeroDigits(_)
DropLeadingZeroDigits(ds) ==
    IF ds # <<>> /\ Head(ds) = 0 THEN DropLeadingZeroDigits(Tail(ds)) ELSE ds

\* Decimal(n_str).as_tuple(): the coefficient without its leading zeros (a
\* zero coefficient is the single digit 0), the exponent lowered by the
\* number of fraction digits.  The constructor is exact: the context's
\* precision does not round it.
DecimalAsTuple(n) ==
    LET coeff == DropLeadingZeroDigits(n.int \o n.frac)
    IN [sign   |-> IF n.neg THEN 1 ELSE 0,
        digits |-> IF coeff = <<>> THEN <<0>> ELSE coeff,
        exp    |-> n.exp - Len(n.frac)]

\* list.insert(exp, '.') for exp < 0 and len(list) >= -exp
InsertPoint(digits_list, exp) ==
    LET k == Max(Len(digits_list) + exp, 0)
    IN SubSeq(digits_list, 1, k) \o <<".">> \o SubSeq(digits_list, k + 1, Len(digits_list))

\* Lines 59 to 67: the point or the zeros the exponent asks for
Place(digits_list, exp) ==
    IF exp < 0
    THEN InsertPoint(Zeros(Max(-exp - Len(digits_list), 0)) \o digits_list, exp)
    ELSE IF exp > 0 THEN digits_list \o Zeros(exp)
    ELSE digits_list

\* Lines 74 to 76: trailing zeros go only when there is a point
TrimFraction(ltrim) ==
    IF "." \in Range(ltrim) THEN RStrip0(ltrim) ELSE ltrim

\* Lines 78 to 84
SignAndValue(sign, value) ==
    (IF sign # 0 THEN <<"-">> ELSE <<>>)
    \o (IF value = <<>> \/ value = <<".">> THEN <<"0">> ELSE value)

FormatTuple(t) ==
    SignAndValue(t.sign,
        TrimFraction(LStrip0(Place([i \in 1..Len(t.digits) |-> DigitChar(t.digits[i])], t.exp))))

format_decimal(n) == FormatTuple(DecimalAsTuple(n))

\* d_str.split('.') for a string with one point
SplitPoint(d_str) ==
    LET k == CHOOSE i \in 1..Len(d_str) : d_str[i] = "."
    IN <<SubSeq(d_str, 1, k - 1), SubSeq(d_str, k + 1, Len(d_str))>>

\* Lines 94 to 97: an odd number of digits is made even with a filler
PadLeft(p0) == IF Len(p0) % 2 # 0 THEN <<"Z">> \o p0 ELSE p0

PadRight(p1) == IF Len(p1) % 2 # 0 THEN p1 \o <<"Z">> ELSE p1

\* Lines 91 to 97
JoinParts(p0, p1) ==
    IF p0 = <<"0">> THEN PadLeft(<<>>) \o PadRight(LStrip0(p1))
    ELSE PadLeft(p0) \o PadRight(p1)

JoinSplit(parts) == JoinParts(parts[1], parts[2])

RECURSIVE measure_number(_)
measure_number(d_str) ==
    IF "." \in Range(d_str)
    THEN measure_number(JoinSplit(SplitPoint(d_str)))
    ELSE CeilDiv(Len(Strip0(d_str)), 2)

\* Lines 119 to 121: one byte more than the digits take, and one for "-"
SizeOfFormatted(n_str) ==
    measure_number(RemoveChar(n_str, "-")) + 1
    + (IF n_str # <<>> /\ Head(n_str) = "-" THEN 1 ELSE 0)

\* Lines 122 and 123
Clamp(size) == IF size > NUMBER_SIZE_CAP THEN NUMBER_SIZE_CAP ELSE size

\* number_size without the clamp at 21
NumberSizeUnclamped(n) == SizeOfFormatted(format_decimal(n))

\* number_size without the byte every number takes
NumberSizeNoOverhead(n) == Clamp(SizeOfFormatted(format_decimal(n)) - 1)

number_size(n) == Clamp(SizeOfFormatted(format_decimal(n)))

----------------------------------------------------------------------------
(* item_size.py: attribute values and items                                *)
(*                                                                         *)
(* An attribute value {"<tag>": payload} is the record [tag, val].  A Map  *)
(* payload is a sequence of <<name, attr>> in the dict's order, a List or  *)
(* set payload a sequence.  Base64 text is a sequence of "A" (a data       *)
(* character) and "=" (padding).                                           *)

KnownTags == {"S", "N", "B", "BOOL", "NULL", "M", "L", "SS", "NS", "BS"}

\* The length of one code point's UTF-8 encoding
Utf8Len(cp) ==
    IF cp < 128 THEN 1 ELSE IF cp < 2048 THEN 2 ELSE IF cp < 65536 THEN 3 ELSE 4

\* The text of the code points cps, one run each
Text(cps) == [i \in 1..Len(cps) |-> <<cps[i], 1>>]

\* The text of one code point repeated k times
Repeat(cp, k) == IF k = 0 THEN <<>> ELSE <<<<cp, k>>>>

\* len(bytes(s, 'utf-8')): the bytes of the encodings of all code points
RECURSIVE string_size(_)
string_size(s) ==
    IF s = <<>> THEN 0
    ELSE Utf8Len(Head(s)[1]) * Head(s)[2] + string_size(Tail(s))

\* len(base64.b64decode(b)): three bytes per group of four characters, less
\* one byte per padding character
binary_size(b) ==
    (Len(b) \div 4) * 3 - Cardinality({i \in 1..Len(b) : b[i] = "="})

RECURSIVE SumStringSizes(_)
SumStringSizes(es) ==
    IF es = <<>> THEN 0 ELSE string_size(Head(es)) + SumStringSizes(Tail(es))

RECURSIVE SumNumberSizes(_)
SumNumberSizes(es) ==
    IF es = <<>> THEN 0 ELSE number_size(Head(es)) + SumNumberSizes(Tail(es))

RECURSIVE SumBinarySizes(_)
SumBinarySizes(es) ==
    IF es = <<>> THEN 0 ELSE binary_size(Head(es)) + SumBinarySizes(Tail(es))

RECURSIVE attr_size(_)

\* The loop over a List's elements with the per-element byte left out
RECURSIVE ListLoopNoElementByte(_)
ListLoopNoElementByte(es) ==
    IF es = <<>> THEN 0
    ELSE attr_size(Head(es)) + ListLoopNoElementByte(Tail(es))

\* "for m_name, m_value in attr['M'].items(): size += ..."
RECURSIVE MapLoop(_)
MapLoop(entries) ==
    IF entries = <<>> THEN 0
    ELSE string_size(Head(entries)[1]) + attr_size(Head(entries)[2])
         + NESTED_TYPE_BASE_SIZE + MapLoop(Tail(entries))

\* "for e in attr['L']: size += ..."
RECURSIVE ListLoop(_)
ListLoop(es) ==
    IF es = <<>> THEN 0
    ELSE attr_size(Head(es)) + NESTED_TYPE_BASE_SIZE + ListLoop(Tail(es))

attr_size(attr) ==
    CASE attr.tag = "S"    -> string_size(attr.val)
      [] attr.tag = "N"    -> number_size(attr.val)
      [] attr.tag = "B"    -> binary_size(attr.val)
      [] attr.tag = "BOOL" -> 1
      [] attr.tag = "NULL" -> 1
      [] attr.tag = "M"    -> EMPTY_DOC_BASE_SIZE + MapLoop(attr.val)
      [] attr.tag = "L"    -> EMPTY_DOC_BASE_SIZE + ListLoop(attr.val)
      [] attr.tag = "SS"   -> SumStringSizes(attr.val)
      [] attr.tag = "NS"   -> SumNumberSizes(attr.val)
      [] attr.tag = "BS"   -> SumBinarySizes(attr.val)

\* attr_size raises ValueError for an attribute of no known tag, at any depth
RECURSIVE Raises(_)
Raises(attr) ==
    CASE attr.tag = "M" -> \E i \in 1..Len(attr.val) : Raises(attr.val[i][2])
      [] attr.tag = "L" -> \E i \in 1..Len(attr.val) : Raises(attr.val[i])
      [] OTHER -> attr.tag \notin KnownTags

\* "for attr_name, attr in item.items(): size += ..."
RECURSIVE item_size(_)
item_size(it) ==
    IF it = <<>> THEN 0
    ELSE string_size(Head(it)[1]) + attr_size(Head(it)[2]) + item_size(Tail(it))

ItemRaises(it) == \E i \in 1..Len(it) : Raises(it[i][2])

----------------------------------------------------------------------------
(* The number strings the checks draw from *)

MaxIntDigits == 3
MaxFracDigits == 2
MaxExp == 2
MaxPadZeros == 2

\* The digits used in short number strings: zero and two non-zero digits
DigitSet == {0, 1, 2}

SeqsUpTo(S, k) == UNION {[1..m -> S] : m \in 0..k}

\* Every short number string: at least one digit, any sign, any exponent
SmallNumbers(maxInt, maxFrac, maxExp) ==
    {[neg |-> s, int |-> i, frac |-> f, exp |-> e] :
        s \in BOOLEAN, i \in SeqsUpTo(DigitSet, maxInt),
        f \in SeqsUpTo(DigitSet, maxFrac), e \in -maxExp..maxExp}
    \ [neg : BOOLEAN, int : {<<>>}, frac : {<<>>}, exp : -maxExp..maxExp]

\* n written another way: lz more leading zeros, tz more zeros at the end of
\* the fraction, and the exponent raised by sh with the point moved sh
\* places to the left (digits moved from int to frac)
Respell(n, lz, tz, sh) ==
    LET k == Len(n.int) - sh
    IN [neg  |-> n.neg,
        int  |-> [i \in 1..lz |-> 0] \o SubSeq(n.int, 1, k),
        frac |-> SubSeq(n.int, k + 1, Len(n.int)) \o n.frac \o [i \in 1..tz |-> 0],
        exp  |-> n.exp + sh]

Respellings(n) ==
    {Respell(n, lz, tz, sh) : lz \in 0..1, tz \in 0..MaxPadZeros, sh \in 0..Len(n.int)}

\* The digits of a long number: a run of zeros, a run of non-zero digits, a
\* run of zeros
Run(d, k) == [i \in 1..k |-> d]

RunLens == {0, 1, 2, 18, 19, 20, 37, 38, 39, 40, 41}

LongNumbers(maxPad) ==
    {[neg  |-> s,
      int  |-> Run(0, a) \o Run(7, b) \o Run(0, c),
      frac |-> Run(0, d) \o Run(3, e) \o Run(0, f),
      exp  |-> x] :
        s \in BOOLEAN, a \in 0..1, b \in RunLens, c \in 0..maxPad,
        d \in 0..maxPad, e \in RunLens, f \in 0..1, x \in {-1, 0, 1}}
    \ [neg : BOOLEAN, int : {<<>>}, frac : {<<>>}, exp : {-1, 0, 1}]

----------------------------------------------------------------------------
(* The items the checks draw from *)

MaxStrLen == 1
MaxDepth == 2

\* Code points whose UTF-8 encodings take 1, 2, 3 and 4 bytes
CodePoints == {97, 233, 8364, 128512}

Strings(maxLen) == {Text(cps) : cps \in SeqsUpTo(CodePoints, maxLen)}

FewStrings == {Text(<<>>), Text(<<97>>), Text(<<8364>>)}

Num(neg, int, frac, exp) == [neg |-> neg, int |-> int, frac |-> frac, exp |-> exp]

\* "0", "-12.5", "120.0", "1E2", and a number of 40 digits
FewNumbers ==
    {Num(FALSE, <<0>>, <<>>, 0), Num(TRUE, <<1, 2>>, <<5>>, 0),
     Num(FALSE, <<1, 2, 0>>, <<0>>, 0), Num(FALSE, <<1>>, <<>>, 2),
     Num(FALSE, Run(9, 40), <<>>, 0)}

\* "", "QQ==", "QUI=", "QUJD", "QUJDRA=="
Base64Texts ==
    {<<>>, <<"A", "A", "=", "=">>, <<"A", "A", "A", "=">>, <<"A", "A", "A", "A">>,
     <<"A", "A", "A", "A", "A", "A", "=", "=">>}

Attr(tag, val) == [tag |-> tag, val |-> val]

Leaves(maxLen) ==
    {Attr("S", v) : v \in Strings(maxLen)}
    \cup {Attr("N", v) : v \in FewNumbers}
    \cup {Attr("B", v) : v \in Base64Texts}
    \cup {Attr("BOOL", v) : v \in BOOLEAN}
    \cup {Attr("NULL", TRUE)}
    \cup {Attr("SS", v) : v \in SeqsUpTo(FewStrings, 2)}
    \cup {Attr("NS", v) : v \in SeqsUpTo({Num(FALSE, <<0>>, <<>>, 0), Num(TRUE, <<1, 2>>, <<5>>, 0)}, 2)}
    \cup {Attr("BS", v) : v \in SeqsUpTo({<<>>, <<"A", "A", "A", "=">>}, 2)}

\* The attribute that stands beside a nested one in a container
Siblings == {Attr("S", Text(<<233>>)), Attr("NULL", TRUE)}

\* The attribute names used, by position: "", "k", an e-acute, a euro sign and "k"
NameAt(i) == Text(<< <<>>, <<107>>, <<233>>, <<8364, 107>> >>[i])

\* The containers around a value c: alone, or after one sibling
Around(c) ==
    {Attr("M", <<<<NameAt(2), c>>>>), Attr("L", <<c>>)}
    \cup {Attr("M", <<<<NameAt(1), t>>, <<NameAt(4), c>>>>) : t \in Siblings}
    \cup {Attr("L", <<t, c>>) : t \in Siblings}

\* A set of values, the empty containers and the containers around each value
Nest(inner) ==
    inner \cup {Attr("M", <<>>), Attr("L", <<>>)} \cup UNION {Around(c) : c \in inner}

\* The attribute values nested to depth d at most
RECURSIVE Values(_, _)
Values(d, maxLen) ==
    IF d = 0 THEN Leaves(maxLen) ELSE Nest(Values(d - 1, maxLen))

ItemsOf(values) ==
    {<<>>}
    \cup {<<<<NameAt(3), v>>>> : v \in values}
    \cup {<<<<NameAt(2), t>>, <<NameAt(4), v>>>> : t \in Siblings, v \in values}

Items(d, maxLen) == ItemsOf(Values(d, maxLen))

----------------------------------------------------------------------------
(* The item calculator as a state machine *)

\* One call of item_size on a well-formed item
ItemSize ==
    /\ itemPc = "start"
    /\ ~ItemRaises(item)
    /\ attrSizes' = [i \in 1..Len(item) |-> attr_size(item[i][2])]
    /\ itemSize' = item_size(item)
    /\ itemPc' = "done"
    /\ UNCHANGED <<item, numVars, statsVars, dumpVars>>

InitAttr ==
    /\ item \in Items(MaxDepth, MaxStrLen)
    /\ itemPc = "start"
    /\ attrSizes = <<>>
    /\ itemSize = 0
    /\ NumIdle
    /\ StatsIdle
    /\ DumpIdle

NextAttr == ItemSize

SpecAttr == InitAttr /\ [][NextAttr]_vars

----------------------------------------------------------------------------
(* The number calculator as a state machine *)

\* One call of number_size: the next string is formatted and measured
NumberSize ==
    /\ Len(numSize) < Len(numIn)
    /\ LET n == numIn[Len(numSize) + 1]
       IN /\ numStr' = Append(numStr, format_decimal(n))
          /\ numSize' = Append(numSize, number_size(n))
    /\ UNCHANGED <<numIn, itemVars, statsVars, dumpVars>>

\* Pairs of short number strings, the second a respelling of the first
InitFormat ==
    /\ \E a \in SmallNumbers(MaxIntDigits, MaxFracDigits, MaxExp) :
           \E b \in Respellings(a) : numIn = <<a, b>>
    /\ numStr = <<>>
    /\ numSize = <<>>
    /\ ItemIdle
    /\ StatsIdle
    /\ DumpIdle

InitCap ==
    /\ \E a \in LongNumbers(MaxPadZeros) : numIn = <<a>>
    /\ numStr = <<>>
    /\ numSize = <<>>
    /\ ItemIdle
    /\ StatsIdle
    /\ DumpIdle

NextNum == NumberSize

SpecFormat == InitFormat /\ [][NextNum]_vars

SpecCap == InitCap /\ [][NextNum]_vars


----------------------------------------------------------------------------
(* stats.py                                                                *)
(*                                                                         *)
(* A ratio that Python computes with "/" is the record [num, den].         *)

READ_BLOCK == 4096
WRITE_BLOCK == 1024

\* item.get(a): the attribute of that name, or <<>> for None
ItemGet(it, a) ==
    IF \E i \in 1..Len(it) : it[i][1] = a
    THEN <<it[CHOOSE i \in 1..Len(it) : it[i][1] = a][2]>>
    ELSE <<>>

\* str(next(iter(attr_val.values()))): a text payload is returned as it is,
\* a bool as "True" or "False", a dict or list as its repr
PyStr(attr) ==
    CASE attr.tag \in {"S", "N", "B"} -> attr.val
      [] attr.tag \in {"BOOL", "NULL"} -> IF attr.val THEN "True" ELSE "False"
      [] OTHER -> <<"repr", attr.val>>

\* The "attr.<a>" columns of an item, in the order of attrs
Echo(it, as) ==
    [k \in 1..Len(as) |->
        [key   |-> <<"attr.", as[k]>>,
         value |-> IF ItemGet(it, as[k]) = <<>> THEN <<>> ELSE PyStr(ItemGet(it, as[k])[1])]]

\* Lines 28 to 39 of generate_stats: the statistics of an item of this size
Stats(size, echo) ==
    LET read_blocks_required == CeilDiv(size, READ_BLOCK)
        read_bytes_required == read_blocks_required * READ_BLOCK
        write_blocks_required == CeilDiv(size, WRITE_BLOCK)
        write_bytes_required == read_blocks_required * WRITE_BLOCK
    IN [echo             |-> echo,
        size             |-> size,
        read_units       |-> [num |-> read_blocks_required, den |-> 2],
        read_efficiency  |-> [num |-> size, den |-> read_bytes_required],
        read_excess      |-> read_bytes_required - size,
        write_units      |-> write_blocks_required,
        write_efficiency |-> [num |-> size, den |-> write_bytes_required],
        write_excess     |-> write_bytes_required - size]

\* Lines 16 to 39 of generate_stats: the StatisticsRecord of one item
ItemStats(it, as) == Stats(item_size(it), Echo(it, as))

\* "size / read_bytes_required" (line 35) and "size / write_bytes_required"
\* (line 38) raise ZeroDivisionError when the divisor is 0
ZeroDivides(st) == st.read_efficiency.den = 0 \/ st.write_efficiency.den = 0

\* The loop body raises: ValueError from attr_size for an unknown tag, or
\* ZeroDivisionError
StatsRaises(it) ==
    IF ItemRaises(it) THEN TRUE ELSE ZeroDivides(ItemStats(it, <<>>))

\* Line 15: sys.stdin.readlines() reads standard input to its end
ReadLines ==
    /\ genPc = "start"
    /\ lines' = stdin
    /\ stdin' = <<>>
    /\ genPc' = "loop"
    /\ UNCHANGED <<attrs, fmt, pos, yielded, rows, statsOut>>
    /\ UNCHANGED <<numVars, itemVars, dumpVars>>

\* "yield item_stats" and the body of cli's loop over the generator:
\* json.dump, or rows.append for CSV
Yield(item_stats) ==
    /\ yielded' = Append(yielded, item_stats)
    /\ pos' = pos + 1
    /\ IF fmt = "json"
       THEN statsOut' = Append(statsOut, item_stats) /\ UNCHANGED rows
       ELSE rows' = Append(rows, item_stats) /\ UNCHANGED statsOut
    /\ UNCHANGED genPc

\* One iteration of the loop of generate_stats, which raises or yields
Iterate ==
    /\ genPc = "loop"
    /\ pos <= Len(lines)
    /\ IF StatsRaises(lines[pos])
       THEN /\ genPc' = "raised"
            /\ UNCHANGED <<pos, yielded, rows, statsOut>>
       ELSE Yield(ItemStats(lines[pos], attrs))
    /\ UNCHANGED <<attrs, fmt, stdin, lines>>
    /\ UNCHANGED <<numVars, itemVars, dumpVars>>

\* The loop ends; for CSV cli writes the header and then the rows
Finish ==
    /\ genPc = "loop"
    /\ pos > Len(lines)
    /\ genPc' = "done"
    /\ statsOut' = IF fmt = "csv" THEN <<"header">> \o rows ELSE statsOut
    /\ UNCHANGED <<attrs, fmt, stdin, lines, pos, yielded, rows>>
    /\ UNCHANGED <<numVars, itemVars, dumpVars>>

MaxLines == 2

\* {"k": {"S": "a" * k}}: an item of 1 + k bytes
Padded(k) == <<<<NameAt(2), Attr("S", Repeat(97, k))>>>>

\* The attribute name "id"
IdName == Text(<<105, 100>>)

\* Items of 0, 0, 12, 1024, 1025, 4096 and 4097 bytes, and one with an
\* attribute of an unknown tag
StatsItems ==
    {<<>>,
     <<<<NameAt(1), Attr("S", <<>>)>>>>,
     <<<<IdName, Attr("S", Text(<<97, 98, 99>>))>>,
       <<Text(<<99, 111, 117, 110, 116>>), Attr("N", Num(FALSE, <<4, 2>>, <<>>, 0))>>>>,
     <<<<IdName, Attr("BOOL", TRUE)>>, <<NameAt(2), Attr("S", Repeat(97, 1020))>>>>,
     Padded(1024), Padded(4095), Padded(4096),
     <<<<IdName, Attr("X", <<>>)>>>>}

InitStats ==
    /\ attrs \in {<<>>, <<IdName>>}
    /\ fmt \in {"json", "csv"}
    /\ stdin \in SeqsUpTo(StatsItems, MaxLines)
    /\ lines = <<>>
    /\ pos = 1
    /\ genPc = "start"
    /\ yielded = <<>>
    /\ rows = <<>>
    /\ statsOut = <<>>
    /\ NumIdle
    /\ ItemIdle
    /\ DumpIdle

NextStats == ReadLines \/ Iterate \/ Finish

SpecStats == InitStats /\ [][NextStats]_vars

----------------------------------------------------------------------------
(* dump_s3_export.py                                                       *)
(*                                                                         *)
(* A data file is the number of items it holds; item r of file f is        *)
(* written as the text <<f, r, "json">> and the newline <<f, r, "nl">>.    *)
(* Every worker is a process of its own: it has its own sys.stdout object, *)
(* whose buffer the io library writes to the shared output when it sees    *)
(* fit during a write, and when the process exits.                         *)

QUEUE_FACTOR == 10

Workers == 1..procs

\* multiprocessing.Queue(maxsize=num_procs * 10)
QueueMaxSize == procs * QUEUE_FACTOR

\* A queue that takes any number of entries
QueueNeverFull(queue) == FALSE

\* Queue.put blocks while the queue holds maxsize entries
QueueFull(queue) == Len(queue) >= QueueMaxSize

\* Lines 118 to 139: procs is checked, the queue and the lock are made and
\* the workers are started
Validate ==
    /\ cliPc = "validate"
    /\ IF procs < 1
       THEN cliPc' = "rejected" /\ UNCHANGED wpc
       ELSE cliPc' = "put" /\ wpc' = [w \in Workers |-> "get"]
    /\ UNCHANGED <<procs, manifest, putPos, sentPut, q, lock, cur, rec, buf,
                   stream, taken, dumped, sentinels>>
    /\ UNCHANGED <<numVars, itemVars, statsVars>>

\* Lines 143 and 144: the next manifest line is put in the queue
Put ==
    /\ cliPc = "put"
    /\ putPos <= Len(manifest)
    /\ ~QueueFull(q)
    /\ q' = Append(q, putPos)
    /\ putPos' = putPos + 1
    /\ UNCHANGED <<procs, manifest, cliPc, sentPut, lock, wpc, cur, rec, buf,
                   stream, taken, dumped, sentinels>>
    /\ UNCHANGED <<numVars, itemVars, statsVars>>

\* Lines 146 and 147: one None for each worker
PutSentinel ==
    /\ cliPc = "put"
    /\ putPos > Len(manifest)
    /\ sentPut < procs
    /\ ~QueueFull(q)
    /\ q' = Append(q, 0)
    /\ sentPut' = sentPut + 1
    /\ UNCHANGED <<procs, manifest, cliPc, putPos, lock, wpc, cur, rec, buf,
                   stream, taken, dumped, sentinels>>
    /\ UNCHANGED <<numVars, itemVars, statsVars>>

\* Lines 149 and 150: every worker is joined, and cli returns
Join ==
    /\ cliPc = "put"
    /\ putPos > Len(manifest)
    /\ sentPut = procs
    /\ \A w \in Workers : wpc[w] = "exited"
    /\ cliPc' = "done"
    /\ UNCHANGED <<procs, manifest, putPos, sentPut, q, lock, wpc, cur, rec, buf,
                   stream, taken, dumped, sentinels>>
    /\ UNCHANGED <<numVars, itemVars, statsVars>>

\* Line 72: item_q.get().  None ends the worker, whose process flushes its
\* standard output as it exits
Get(w) ==
    /\ wpc[w] = "get"
    /\ q # <<>>
    /\ q' = Tail(q)
    /\ IF Head(q) = 0
       THEN /\ sentinels' = [sentinels EXCEPT ![w] = @ + 1]
            /\ wpc' = [wpc EXCEPT ![w] = "exited"]
            /\ stream' = stream \o buf[w]
            /\ buf' = [buf EXCEPT ![w] = <<>>]
            /\ UNCHANGED <<cur, rec, taken>>
       ELSE /\ cur' = [cur EXCEPT ![w] = Head(q)]
            /\ rec' = [rec EXCEPT ![w] = 1]
            /\ taken' = [taken EXCEPT ![Head(q)] = @ + 1]
            /\ wpc' = [wpc EXCEPT ![w] = "lines"]
            /\ UNCHANGED <<sentinels, stream, buf>>
    /\ UNCHANGED <<procs, manifest, cliPc, putPos, sentPut, lock, dumped>>
    /\ UNCHANGED <<numVars, itemVars, statsVars>>

\* Lines 86 to 90: the next line of the data file is read and made into
\* item_json, or the file has ended
NextLine(w) ==
    /\ wpc[w] = "lines"
    /\ IF rec[w] <= manifest[cur[w]]
       THEN wpc' = [wpc EXCEPT ![w] = "acquire"] /\ UNCHANGED dumped
       ELSE /\ wpc' = [wpc EXCEPT ![w] = "get"]
            /\ dumped' = [dumped EXCEPT ![cur[w]] = @ + 1]
    /\ UNCHANGED <<procs, manifest, cliPc, putPos, sentPut, q, lock, cur, rec,
                   buf, stream, taken, sentinels>>
    /\ UNCHANGED <<numVars, itemVars, statsVars>>

\* Line 91: with print_lock
Acquire(w) ==
    /\ wpc[w] = "acquire"
    /\ lock = 0
    /\ lock' = w
    /\ wpc' = [wpc EXCEPT ![w] = "write_json"]
    /\ UNCHANGED <<procs, manifest, cliPc, putPos, sentPut, q, cur, rec, buf,
                   stream, taken, dumped, sentinels>>
    /\ UNCHANGED <<numVars, itemVars, statsVars>>

\* sys.stdout.write(text) in worker w: the text joins the process's buffer;
\* the library may write the buffer out before taking the text (the text
\* would overfill it), after taking it (the buffer is full, or the stream
\* is line buffered and the text a newline), or not at all
StdoutWrite(w, text) ==
    \/ /\ buf' = [buf EXCEPT ![w] = Append(@, text)]
       /\ UNCHANGED stream
    \/ /\ buf' = [buf EXCEPT ![w] = <<>>]
       /\ stream' = stream \o Append(buf[w], text)
    \/ /\ buf[w] # <<>>
       /\ buf' = [buf EXCEPT ![w] = <<text>>]
       /\ stream' = stream \o buf[w]

\* Line 92: sys.stdout.write(item_json)
WriteJson(w) ==
    /\ wpc[w] = "write_json"
    /\ StdoutWrite(w, <<cur[w], rec[w], "json">>)
    /\ wpc' = [wpc EXCEPT ![w] = "write_nl"]
    /\ UNCHANGED <<procs, manifest, cliPc, putPos, sentPut, q, lock, cur, rec,
                   taken, dumped, sentinels>>
    /\ UNCHANGED <<numVars, itemVars, statsVars>>

\* Line 93: sys.stdout.write('\n'), and the lock is released
WriteNewline(w) ==
    /\ wpc[w] = "write_nl"
    /\ StdoutWrite(w, <<cur[w], rec[w], "nl">>)
    /\ lock' = 0
    /\ rec' = [rec EXCEPT ![w] = @ + 1]
    /\ wpc' = [wpc EXCEPT ![w] = "lines"]
    /\ UNCHANGED <<procs, manifest, cliPc, putPos, sentPut, q, cur, taken,
                   dumped, sentinels>>
    /\ UNCHANGED <<numVars, itemVars, statsVars>>

CliStep == Validate \/ Put \/ PutSentinel \/ Join

WorkerStep(w) ==
    /\ w \in Workers
    /\ (Get(w) \/ NextLine(w) \/ Acquire(w) \/ WriteJson(w) \/ WriteNewline(w))

MaxProcs == 2
MaxLongProcs == 1
MaxFiles == 2
MaxLoad == 4

\* Short manifests: a few data files with a few items between them
RECURSIVE SumSeq(_)
SumSeq(ns) == IF ns = <<>> THEN 0 ELSE Head(ns) + SumSeq(Tail(ns))

ShortManifests(maxFiles, maxItems) ==
    {m \in SeqsUpTo(0..maxItems, maxFiles) : SumSeq(m) <= maxItems}

\* The long manifest: one data file more than the queue of n workers holds;
\* the first file holds one item and the others none
LongManifest(n) == [i \in 1..(QUEUE_FACTOR * n + 1) |-> IF i = 1 THEN 1 ELSE 0]

InitDump ==
    /\ \/ /\ procs \in 0..MaxProcs
          /\ manifest \in ShortManifests(MaxFiles, MaxLoad - procs)
       \/ /\ procs \in 1..MaxLongProcs
          /\ manifest = LongManifest(procs)
    /\ cliPc = "validate"
    /\ putPos = 1
    /\ sentPut = 0
    /\ q = <<>>
    /\ lock = 0
    /\ wpc = [w \in Workers |-> "new"]
    /\ cur = [w \in Workers |-> 0]
    /\ rec = [w \in Workers |-> 0]
    /\ buf = [w \in Workers |-> <<>>]
    /\ stream = <<>>
    /\ taken = [f \in 1..Len(manifest) |-> 0]
    /\ dumped = [f \in 1..Len(manifest) |-> 0]
    /\ sentinels = [w \in Workers |-> 0]
    /\ NumIdle
    /\ ItemIdle
    /\ StatsIdle

NextDump ==
    \/ Validate
    \/ Put
    \/ PutSentinel
    \/ Join
    \/ \E w \in Workers : Get(w)
    \/ \E w \in Workers : NextLine(w)
    \/ \E w \in Workers : Acquire(w)
    \/ \E w \in Workers : WriteJson(w)
    \/ \E w \in Workers : WriteNewline(w)

\* The operating system schedules every process that can run
DumpFairness ==
    /\ WF_vars(CliStep)
    /\ \A w \in 1..MaxProcs : WF_vars(WorkerStep(w))

SpecDump == InitDump /\ [][NextDump]_vars /\ DumpFairness

----------------------------------------------------------------------------
(* Properties of the number calculator *)

RECURSIVE DigitsToInt(_)
DigitsToInt(ds) ==
    IF ds = <<>> THEN 0 ELSE 10 * DigitsToInt(SubSeq(ds, 1, Len(ds) - 1)) + ds[Len(ds)]

RECURSIVE Pow10(_)
Pow10(k) == IF k <= 0 THEN 1 ELSE 10 * Pow10(k - 1)

\* The number a string denotes is Coefficient * 10^Exponent, negated if neg
Coefficient(n) == DigitsToInt(n.int \o n.frac)

Exponent(n) == n.exp - Len(n.frac)

\* Two strings denote the same signed number
SameValue(a, b) ==
    LET m == IF Exponent(a) <= Exponent(b) THEN Exponent(a) ELSE Exponent(b)
    IN /\ a.neg = b.neg
       /\ Coefficient(a) * Pow10(Exponent(a) - m) = Coefficient(b) * Pow10(Exponent(b) - m)

RECURSIVE DropTrailingZeroDigits(_)
DropTrailingZeroDigits(ds) ==
    IF ds # <<>> /\ ds[Len(ds)] = 0
    THEN DropTrailingZeroDigits(SubSeq(ds, 1, Len(ds) - 1)) ELSE ds

\* The significant digits of a number string: its digits from the first
\* non-zero digit to the last non-zero digit
SignificantDigits(n) ==
    Len(DropTrailingZeroDigits(DropLeadingZeroDigits(n.int \o n.frac)))

\* C3: number_size depends only on the numeric value: two strings that
\* denote the same signed number (leading zeros, trailing fraction zeros,
\* "120.0" against "120", exponent notation) get the same number_size.
C3_SameValueSameSize ==
    (Len(numIn) = 2 /\ Len(numSize) = 2 /\ SameValue(numIn[1], numIn[2]))
        => numSize[1] = numSize[2]

\* A string is canonical for the number string n it was formatted from
Canonical(str, n) ==
    LET body == IF str # <<>> /\ Head(str) = "-" THEN Tail(str) ELSE str
    IN /\ body # <<>>
       /\ Range(body) \subseteq {"0", "1", "2", "3", "4", "5", "6", "7", "8", "9", "."}
       /\ body = <<"0">> \/ Head(body) # "0"
       /\ "." \in Range(body) => body[Len(body)] # "0"
       /\ (str # <<>> /\ Head(str) = "-") => (n.neg /\ Coefficient(n) # 0)

\* C6: for every valid decimal string format_decimal returns a canonical
\* string: no exponent notation, no leading zeros except a lone "0", no
\* trailing zeros after a decimal point, and a leading minus sign only when
\* the value is negative and non-zero.
C6_FormatDecimalCanonical ==
    \A i \in 1..Len(numStr) : Canonical(numStr[i], numIn[i])

\* C7: number_size never returns more than 21, and every number string with
\* 40 or more significant digits (first to last non-zero digit) yields
\* exactly 21.
C7_NumberSizeCapped ==
    \A i \in 1..Len(numSize) :
        /\ numSize[i] <= 21
        /\ SignificantDigits(numIn[i]) >= 40 => numSize[i] = 21

\* A number with 40 or more significant digits has been measured as 21, and
\* so has one whose size before the clamp exceeds 21
C7_Witness ==
    /\ Len(numSize) = 1
    /\ SignificantDigits(numIn[1]) >= 40
    /\ numIn[1].neg
    /\ numSize[1] = 21

----------------------------------------------------------------------------
(* Properties of the item calculator *)

\* Every attribute value of the item, at every depth
RECURSIVE SubAttrs(_)
SubAttrs(attr) ==
    {attr} \cup
    (CASE attr.tag = "M" -> UNION {SubAttrs(attr.val[i][2]) : i \in 1..Len(attr.val)}
       [] attr.tag = "L" -> UNION {SubAttrs(attr.val[i]) : i \in 1..Len(attr.val)}
       [] OTHER -> {})

\* C4 as stated: attr_size returns at least 1 for every attribute value of a
\* known variant, and exactly 3 for an empty Map and for an empty List.
C4_AttrSizeAtLeastOne ==
    itemPc = "done" =>
        \A i \in 1..Len(item) :
            /\ attrSizes[i] >= 1
            /\ (item[i][2].tag \in {"M", "L"} /\ item[i][2].val = <<>>) => attrSizes[i] = 3

\* An attribute value with a payload that takes bytes: not an empty String,
\* an empty Binary, or a set whose elements are all empty (or that has none)
HasBytes(attr) ==
    CASE attr.tag = "S"  -> attr.val # <<>>
      [] attr.tag = "B"  -> \E i \in 1..Len(attr.val) : attr.val[i] # "="
      [] attr.tag = "SS" -> \E i \in 1..Len(attr.val) : attr.val[i] # <<>>
      [] attr.tag = "BS" -> \E i \in 1..Len(attr.val) : attr.val[i] # <<>>
      [] attr.tag = "NS" -> attr.val # <<>>
      [] OTHER -> TRUE

\* C4 amended: attr_size returns at least 1 for every Number, Bool, Null,
\* Map and List, for every non-empty String and Binary and for every set
\* with a non-empty element; it returns 0 for an empty String, an empty
\* Binary and a set with no non-empty element; and it returns exactly 3 for
\* an empty Map and for an empty List.
C4_AttrSizeAmended ==
    itemPc = "done" =>
        \A i \in 1..Len(item) :
            LET a == item[i][2]
            IN /\ HasBytes(a) => attrSizes[i] >= 1
               /\ ~HasBytes(a) => attrSizes[i] = 0
               /\ (a.tag \in {"M", "L"} /\ a.val = <<>>) => attrSizes[i] = 3

\* item_size has measured an item holding a non-empty String, found to take
\* 2 bytes, and an empty Map, found to take 3
C4_Witness ==
    /\ itemPc = "done"
    /\ Len(item) = 2
    /\ item[1][2] = Attr("S", Text(<<233>>))
    /\ item[2][2] = Attr("M", <<>>)
    /\ attrSizes = <<2, 3>>

\* The size the claim gives an attribute value: the payload's bytes for a
\* scalar, 1 for Bool and Null, 3 plus name + value + 1 per entry for a Map,
\* 3 plus value + 1 per element for a List, the sum of the elements for a set
RECURSIVE ClaimedAttrSize(_)
ClaimedAttrSize(attr) ==
    LET Sum[k \in 0..Len(attr.val)] ==
            IF k = 0 THEN 0
            ELSE Sum[k - 1] +
                 (CASE attr.tag = "M" ->
                         string_size(attr.val[k][1]) + ClaimedAttrSize(attr.val[k][2]) + 1
                    [] attr.tag = "L"  -> ClaimedAttrSize(attr.val[k]) + 1
                    [] attr.tag = "SS" -> string_size(attr.val[k])
                    [] attr.tag = "NS" -> number_size(attr.val[k])
                    [] attr.tag = "BS" -> binary_size(attr.val[k]))
    IN CASE attr.tag \in {"M", "L"} -> 3 + Sum[Len(attr.val)]
         [] attr.tag \in {"SS", "NS", "BS"} -> Sum[Len(attr.val)]
         [] attr.tag \in {"BOOL", "NULL"} -> 1
         [] attr.tag = "S" -> string_size(attr.val)
         [] attr.tag = "N" -> number_size(attr.val)
         [] attr.tag = "B" -> binary_size(attr.val)

ClaimedItemSize(it) ==
    LET Sum[k \in 0..Len(it)] ==
            IF k = 0 THEN 0
            ELSE Sum[k - 1] + string_size(it[k][1]) + ClaimedAttrSize(it[k][2])
    IN Sum[Len(it)]

\* C5: item_size is compositional at every nesting depth: the size of an
\* item is the sum over its (name, value) pairs of the UTF-8 length of the
\* name plus the size of the value, where a Map is 3 plus name + value + 1
\* per entry, a List 3 plus value + 1 per element, and a set the sum of its
\* elements with no overhead.
C5_ItemSizeCompositional ==
    itemPc = "done" => itemSize = ClaimedItemSize(item)

\* item_size has measured an item with a Map nested in a List
C5_Witness ==
    /\ itemPc = "done"
    /\ Len(item) = 2
    /\ item[2][2].tag = "L"
    /\ Len(item[2][2].val) = 2
    /\ item[2][2].val[2].tag = "M"
    /\ Len(item[2][2].val[2].val) = 2
    /\ item[2][2].val[2].val[2][2].tag = "SS"
    /\ Len(item[2][2].val[2].val[2][2].val) = 2
    /\ itemSize > 20

----------------------------------------------------------------------------
(* Properties of generate_stats *)

\* The records given on standard input, read or not
StatsInput == stdin \o lines

\* C1: for every record of size s the write metrics come from the write
\* block count: write_units = ceil(s/1024), write_efficiency =
\* s / (ceil(s/1024) * 1024), write_excess = ceil(s/1024) * 1024 - s, so
\* that write_excess lies in 0..1023 and write_efficiency is at most 1.
C1_WriteMetrics ==
    \A i \in 1..Len(yielded) :
        LET st == yielded[i]
            s == st.size
            blocks == CeilDiv(s, 1024)
        IN /\ st.write_units = blocks
           /\ st.write_efficiency = [num |-> s, den |-> blocks * 1024]
           /\ st.write_excess = blocks * 1024 - s
           /\ s >= 1 => (st.write_excess \in 0..1023
                         /\ st.write_efficiency.num <= st.write_efficiency.den)

\* C2: for N well-formed records (every attribute value of a known tag, of
\* any content and size) generate_stats yields exactly N StatisticsRecords,
\* the i-th derived from the i-th record: none is dropped, duplicated or
\* reordered, and none aborts the run.
C2_OnePerRecord ==
    (\A i \in 1..Len(StatsInput) : ~ItemRaises(StatsInput[i])) =>
        /\ genPc # "raised"
        /\ Len(yielded) <= Len(StatsInput)
        /\ \A i \in 1..Len(yielded) :
               /\ yielded[i].size = ClaimedItemSize(StatsInput[i])
               /\ yielded[i].echo = Echo(StatsInput[i], attrs)
        /\ genPc = "done" => Len(yielded) = Len(StatsInput)

\* C10: generate_stats consumes its input incrementally: the number of
\* records read from the input stream exceeds the number of
\* StatisticsRecords yielded by at most one.
C10_ReadsIncrementally ==
    Len(lines) - Len(yielded) <= 1

----------------------------------------------------------------------------
(* Properties of the export dumper *)

IsJson(tok) == tok[3] = "json"

IsNewline(tok) == tok[3] = "nl"

SameItem(a, b) == a[1] = b[1] /\ a[2] = b[2]

\* C8: under every interleaving of the workers the shared output holds only
\* whole lines: the text of an item is followed by its own newline with no
\* text of another item in between, and when cli has returned every line is
\* complete.
C8_WholeLines ==
    /\ \A i \in 1..Len(stream) :
           /\ (IsJson(stream[i]) /\ i < Len(stream)) =>
                  (IsNewline(stream[i + 1]) /\ SameItem(stream[i], stream[i + 1]))
           /\ IsNewline(stream[i]) =>
                  (i > 1 /\ IsJson(stream[i - 1]) /\ SameItem(stream[i], stream[i - 1]))
    /\ (cliPc = "done" /\ stream # <<>>) => IsNewline(stream[Len(stream)])

Files == 1..Len(manifest)

SentinelReceived == \E w \in Workers : sentinels[w] >= 1

\* C9 as stated (its part about every state): for procs >= 1 and no worker
\* failing, the queue never holds more than procs * 10 entries, every
\* manifest entry is dequeued and dumped by exactly one worker before any
\* worker receives a None, and each worker consumes one None at most.
C9_DumpedBeforeSentinel ==
    procs >= 1 =>
        /\ Len(q) <= procs * 10
        /\ \A f \in Files : taken[f] <= 1 /\ dumped[f] <= 1
        /\ SentinelReceived => \A f \in Files : taken[f] = 1 /\ dumped[f] = 1
        /\ \A w \in Workers : sentinels[w] <= 1

C9_Safety ==
    procs >= 1 =>
        /\ Len(q) <= procs * 10
        /\ \A f \in Files : taken[f] <= 1 /\ dumped[f] <= taken[f]
        /\ SentinelReceived => \A f \in Files : taken[f] = 1
        /\ \A w \in Workers : sentinels[w] <= 1
        /\ cliPc = "done" =>
               /\ \A f \in Files : taken[f] = 1 /\ dumped[f] = 1
               /\ \A w \in Workers : sentinels[w] = 1 /\ wpc[w] = "exited"
               /\ q = <<>>

\* C9 amended: for procs >= 1 and no worker failing, the queue never holds
\* more than procs * 10 entries; every manifest entry is dequeued by exactly
\* one worker before any worker receives a None; each worker consumes
\* exactly one None; and eventually cli returns, when every entry has been
\* dumped exactly once and all workers have exited.  (A worker may receive
\* its None while another is still dumping its last file.)
C9_Amended ==
    /\ []C9_Safety
    /\ procs >= 1 => <>(cliPc = "done")

\* cli has returned after a manifest longer than the queue, whose item was
\* written
C9_Witness ==
    /\ cliPc = "done"
    /\ procs >= 1
    /\ Len(manifest) > procs * 10
    /\ Len(stream) = 2
    /\ \A f \in Files : dumped[f] = 1

==========================================================================
